---- MODULE Spec2Model ----
\* Model of the measurement engine of tf-bench (src/bench/bench.go, first
\* revision of the file, lines 1-763): RefreshBenchmark and its two timing
\* strategies, tempDirRefreshBenchmark (isolation) and
\* eventLogRefreshBenchmark (event stream), with measureRefresh,
\* resourceBenchmark and the ranking of the report.
EXTENDS Integers, Sequences, FiniteSets, TLC

\* ---------------------------------------------------------------- bounds
MaxIter == 2        \* largest configured iteration count explored
MaxEvents == 6      \* events read over all iterations of one benchmark
MaxPlanEvents == 4  \* the same, where the whole program is explored
TickLen == 3        \* the clock tick of a plan invocation, in units of
                    \* time.Duration
MaxSortLen == 7     \* longest report handed to the ranking on its own
MaxBlocks == 2      \* blocks in the configuration handed to the rewriter

\* ---------------------------------------------------- program constants
MaxInt64 == 2147483647
    \* (1 << 63) - 1 in the source; the checker's integers are 32 bit, the
    \* largest of them stands for it (every modelled duration is far below)

Nil == "nil"

\* ------------------------------------------------------------ universes
RTypes == {"A", "B"}
Addrs == {"A.x", "A.y", "B.z"}
TypeOf(addr) == IF addr = "B.z" THEN "B" ELSE "A"

EmptyMap == [k \in {} |-> 0]
MapPut(m, k, v) == [a \in DOMAIN m \cup {k} |-> IF a = k THEN v ELSE m[a]]

\* Go's integer division truncates toward zero.
Quo(a, b) == IF a >= 0 THEN a \div b ELSE -((-a) \div b)

RECURSIVE SumSeq(_)
SumSeq(s) == IF s = <<>> THEN 0 ELSE Head(s) + SumSeq(Tail(s))

RECURSIVE SumSq(_)
SumSq(s) == IF s = <<>> THEN 0 ELSE Head(s) * Head(s) + SumSq(Tail(s))

\* floor of the square root
Isqrt(n) == CHOOSE r \in 0..n : r * r <= n /\ (r + 1) * (r + 1) > n

\* gonum stat.PopStdDev(x, nil) converted to a time.Duration: the square
\* root of the population variance (denominator N), truncated.
PopStdDev(x) ==
    LET n == Len(x)
    IN Isqrt((n * SumSq(x) - SumSeq(x) * SumSeq(x)) \div (n * n))

\* every enumeration of a finite set, i.e. every order in which Go may range
\* over a map with these keys
Orders(S) ==
    {s \in [1..Cardinality(S) -> S] :
        \A p, q \in 1..Cardinality(S) : p # q => s[p] # s[q]}

\* ------------------------------------------------------------- ranking
\* a ranking by the raw mean, the instance count forgotten
EventLogLessByMean(ri, rj) == ri.TotalTime > rj.TotalTime

\* eventLogRefreshBenchmark's less function
EventLogLess(ri, rj) == ri.TotalTime * ri.Count > rj.TotalTime * rj.Count

\* tempDirRefreshBenchmark's less function
TempDirLess(ri, rj) == ri.TotalTime > rj.TotalTime

\* a swap that writes one of the two elements only
SwapOverwrite(s, p, q) == [s EXCEPT ![p] = s[q]]

\* the swapper sort.Slice gets from reflect.Swapper
Swap(s, p, q) == [s EXCEPT ![p] = s[q], ![q] = s[p]]

Less(byProduct, ri, rj) ==
    IF byProduct THEN EventLogLess(ri, rj) ELSE TempDirLess(ri, rj)

\* the gap 6 pass sort.Slice makes on a slice of at most 12 elements before
\* its insertion sort (indices are 1-based here)
RECURSIVE ShellPass(_, _, _)
ShellPass(s, byProduct, p) ==
    IF p > Len(s) THEN s
    ELSE ShellPass(IF Less(byProduct, s[p], s[p - 6])
                   THEN Swap(s, p, p - 6) ELSE s, byProduct, p + 1)

RECURSIVE SinkDown(_, _, _)
SinkDown(s, byProduct, q) ==
    IF q > 1 /\ Less(byProduct, s[q], s[q - 1])
    THEN SinkDown(Swap(s, q, q - 1), byProduct, q - 1)
    ELSE s

RECURSIVE InsertionSort(_, _, _)
InsertionSort(s, byProduct, p) ==
    IF p > Len(s) THEN s
    ELSE InsertionSort(SinkDown(s, byProduct, p), byProduct, p + 1)

\* sort.Slice of the Go 1.16 toolchain (go.mod) on at most 12 elements
SortSlice(s, byProduct) ==
    IF Len(s) > 1
    THEN InsertionSort(ShellPass(s, byProduct, 7), byProduct, 2)
    ELSE s

\* ------------------------------------------------------------ versions
\* What terraformVersion returns: kind "nil" when the lookup failed,
\* "unparsable" when version.NewVersion rejects the string, else "ok" with
\* the three segments of the version.
Version(kind, seg) == [kind |-> kind, seg |-> seg]
NilVersion == Version("nil", <<0, 0, 0>>)
Unparsable == Version("unparsable", <<0, 0, 0>>)
V01231 == Version("ok", <<0, 12, 31>>)
V0153 == Version("ok", <<0, 15, 3>>)
V0154 == Version("ok", <<0, 15, 4>>)
Versions == {NilVersion, Unparsable, V01231, V0153, V0154}

\* version.Version.LessThan on three segments
VersionLess(v, w) ==
    \/ v.seg[1] < w.seg[1]
    \/ v.seg[1] = w.seg[1] /\ v.seg[2] < w.seg[2]
    \/ v.seg[1] = w.seg[1] /\ v.seg[2] = w.seg[2] /\ v.seg[3] < w.seg[3]

\* a gate that compares with v0.15, the threshold of the rewriter
TooLowForTf15(v) ==
    v.kind = "ok" /\ VersionLess(v, Version("ok", <<0, 15, 0>>))

\* the capability gate of eventLogRefreshBenchmark
TooLowForEventLog(v) == v.kind = "ok" /\ VersionLess(v, V0154)

\* ------------------------------------------------------ state documents
\* A resource record of the state: type, mode, number of instances.
Records == [Type : RTypes, Mode : {"managed", "data"}, Instances : {1, 2}]

\* resourceTypes[r.Type] += len(r.Instances), data records skipped or not
RECURSIVE CountTypes(_, _)
CountTypes(doc, skipData) ==
    IF doc = <<>> THEN EmptyMap
    ELSE LET r == doc[Len(doc)]
             m == CountTypes(SubSeq(doc, 1, Len(doc) - 1), skipData)
         IN IF skipData /\ r.Mode = "data" THEN m
            ELSE MapPut(m, r.Type,
                        (IF r.Type \in DOMAIN m THEN m[r.Type] ELSE 0)
                        + r.Instances)

\* --------------------------------------------------------------- state
VARIABLES
    cfg,                  \* Config: Iterations, EventLog
    pc,                   \* position in RefreshBenchmark
    err,                  \* error returned by RefreshBenchmark, or Nil
    report,               \* *RefreshReport under construction
    tfstate,              \* parsed output of `terraform state pull`
    resourceTypes,        \* map resource type -> instance count
    i,                    \* iteration index of eventLogRefreshBenchmark
    now,                  \* time since the begin of the running invocation
    nEvents,              \* events read so far (all iterations)
    starts, ends,         \* maps address -> timestamp of the event kept
    reports,              \* map resource type -> *ResourceReport
    resourceOverallData,  \* map resource type -> []float64
    wholeWorkspaceTotal,
    planCalls,            \* plan invocations started so far
    hist,                 \* history: per finished iteration, its two maps,
                          \* the kinds of event read, the addresses measured
    seen,                 \* history: per address, the kinds of event read
    todo,                 \* resource types the range loop has yet to visit
    cur,                  \* resource type resourceBenchmark is measuring
    mr,                   \* measureRefresh: caller, loop index i, total
    runs,                 \* history: the refresh invocations of this call
    refreshCalls,         \* refresh invocations made so far
    cwd,                  \* working directory of the process
    rewrite,              \* what createModifiedTerraformConfiguration does
                          \* with the files of the workspace: "" (not called
                          \* yet), "ok", "error" or "panic"
    tmpDir,               \* os.TempDir(): "present" (no removal tried yet),
                          \* "kept" (its removal is refused), "removed"
    unranked,             \* history: report.Resources before the ranking
    attempted,            \* history: types resourceBenchmark was called for
    failed,               \* history: types resourceBenchmark failed for
    inFlight,             \* external processes started and not yet waited for
    peak,                 \* history: the largest number ever alive at once
    rw,                   \* createModifiedTerraformConfiguration at work:
                          \* its arguments, the blocks read, its position,
                          \* the file built so far, how it ended
    cmd,                  \* the `refresh` command: its position, the error
                          \* it returns, what it printed and wrote, the exit
                          \* status of the process
    stream,               \* one iteration of the event-stream strategy seen
                          \* line by line: the plan process, the pipe, the
                          \* scanner loop, the wait, the statistics
    sf                    \* the state document of an isolation run in the
                          \* making: the state pulled, its decoded value,
                          \* the result of the query, the file written

vars == <<cfg, pc, err, report, tfstate, resourceTypes, i, now, nEvents,
          starts, ends, reports, resourceOverallData, wholeWorkspaceTotal,
          planCalls, hist, seen, todo, cur, mr, runs, refreshCalls, cwd,
          rewrite, tmpDir, unranked, attempted, failed, inFlight, peak,
          rw, cmd, stream, sf>>

elVars == <<i, now, nEvents, starts, ends, reports, resourceOverallData,
            wholeWorkspaceTotal, planCalls, hist, seen>>

tdVars == <<todo, cur, mr, runs, refreshCalls, cwd, rewrite, tmpDir,
            attempted, failed>>

\* seen[a] is "" (no event of the address read in this iteration), "S" (start
\* events only), "C" (complete events only), "SC" (a start event, then a
\* complete event) or "CS" (both kinds, but no complete event after a start)
NoneSeen == [a \in Addrs |-> ""]

SeenStart(x) == IF x = "" THEN "S" ELSE IF x = "C" THEN "CS" ELSE x

SeenComplete(x) ==
    IF x = "" THEN "C" ELSE IF x \in {"S", "CS"} THEN "SC" ELSE x

NoMeasure == [caller |-> "", i |-> 0, total |-> 0, result |-> 0,
              done |-> FALSE]

BeginMeasure(caller) == [NoMeasure EXCEPT !.caller = caller]

\* RefreshBenchmark called as a library function, by no command; exit is -1
\* as long as the process runs
NoCommand == [pc |-> "none", err |-> Nil, printed |-> FALSE,
              written |-> FALSE, exit |-> -1]

\* no plan process looked at line by line
NoStream == [pc |-> "idle", todo |-> <<>>, pipe |-> <<>>, proc |-> "none",
             exitOk |-> TRUE, read |-> <<>>, eof |-> FALSE, waitErr |-> Nil,
             waited |-> FALSE, barFinished |-> FALSE, result |-> "none"]

\* no state filtered
NoDoc == [serial |-> 0, resources |-> <<>>]
NoFilter == [pc |-> "idle", target |-> "", state |-> NoDoc, s |-> NoDoc,
             v |-> NoDoc, out |-> NoDoc]

\* the rewriter not called
NoRewrite == [status |-> "idle", name |-> <<>>, version |-> NilVersion,
              blocks |-> <<>>, pos |-> 1, out |-> <<>>, evals |-> {}]

NoReport == [TerraformVersion |-> NilVersion, TotalTime |-> 0,
             Resources |-> <<>>]

Init ==
    /\ cfg \in [Iterations : 0..MaxIter, EventLog : BOOLEAN]
    /\ pc = "RefreshBenchmark"
    /\ err = Nil
    /\ report = NoReport
    /\ tfstate = <<>>
    /\ resourceTypes = EmptyMap
    /\ i = 0
    /\ now = 0
    /\ nEvents = 0
    /\ starts = EmptyMap
    /\ ends = EmptyMap
    /\ reports = EmptyMap
    /\ resourceOverallData = EmptyMap
    /\ wholeWorkspaceTotal = 0
    /\ planCalls = 0
    /\ hist = <<>>
    /\ seen = NoneSeen
    /\ todo = {}
    /\ cur = ""
    /\ mr = NoMeasure
    /\ runs = <<>>
    /\ refreshCalls = 0
    /\ cwd = "workspace"
    /\ rewrite = ""
    /\ tmpDir = "present"
    /\ unranked = <<>>
    /\ attempted = {}
    /\ failed = {}
    /\ inFlight = 0
    /\ peak = 0
    /\ rw = NoRewrite
    /\ cmd = NoCommand
    /\ stream = NoStream
    /\ sf = NoFilter

Max2(a, b) == IF a >= b THEN a ELSE b

\* exec.Cmd.Start: one more process is alive
Started(n) == n + 1

\* exec.Cmd.Wait returns when the process has exited
Waited(n) == n - 1

\* util.RunCommand (exec.Cmd.CombinedOutput), also exec.Cmd.Start followed
\* by Wait in eval: the process is started and has exited when the call
\* returns.
RunCommand ==
    /\ peak' = Max2(peak, Started(inFlight))
    /\ inFlight' = Waited(Started(inFlight))

\* an iteration that goes on while its plan process is still running
WaitSkipped(n) == n

\* `err = waitFunc()` after the scan loop: exec.Cmd.Wait of the plan
waitFunc(n) == Waited(n)

\* RefreshBenchmark picks the strategy from the configuration flag.
\* a dispatch that takes the event-stream strategy whatever the flag
StrategyEventLogAlways(c) == "el_state"

\* `if cfg.EventLog { return eventLogRefreshBenchmark(...) }
\* return tempDirRefreshBenchmark(...)`
Strategy(c) == IF c.EventLog THEN "el_state" ELSE "td_state"

RefreshBenchmark ==
    /\ pc = "RefreshBenchmark"
    /\ cmd' = cmd
    /\ stream' = stream
    /\ sf' = sf
    /\ rw' = rw
    /\ UNCHANGED <<inFlight, peak>>
    /\ pc' = Strategy(cfg)
    /\ UNCHANGED <<cfg, err, report, tfstate, resourceTypes>>
    /\ UNCHANGED elVars
    /\ UNCHANGED tdVars
    /\ unranked' = unranked

\* a caller that goes on to newReport with the state it did not get
OnStateErrorGoOn(at) == IF at = "el_state" THEN "el_newReport" ELSE "td_newReport"

\* `if err != nil { return nil, err }` after terraformState
OnStateError(at) == "done"

\* terraformState: `terraform state pull` and the parse of its output; the
\* caller counts the instances per type (the event-stream strategy skips
\* data records) or returns the error.
terraformState(docs) ==
    /\ pc \in {"el_state", "td_state"}
    /\ cmd' = cmd
    /\ stream' = stream
    /\ sf' = sf
    /\ rw' = rw
    /\ RunCommand
    /\ \/ /\ pc' = OnStateError(pc)
          /\ err' = "could not read state"
          /\ UNCHANGED <<tfstate, resourceTypes>>
       \/ \E doc \in docs :
            /\ tfstate' = doc
            /\ resourceTypes' = CountTypes(doc, pc = "el_state")
            /\ pc' = IF pc = "el_state" THEN "el_newReport"
                     ELSE "td_newReport"
            /\ err' = err
    /\ UNCHANGED <<cfg, report>>
    /\ UNCHANGED elVars
    /\ UNCHANGED tdVars
    /\ unranked' = unranked

\* ------------------------------------------------ event-stream strategy
\* newReport, then the capability gate (bench.go 287-296).
EventLogNewReport(versions) ==
    /\ pc = "el_newReport"
    /\ cmd' = cmd
    /\ stream' = stream
    /\ sf' = sf
    /\ rw' = rw
    /\ RunCommand
    /\ \E v \in versions :
         /\ report' = [NoReport EXCEPT !.TerraformVersion = v]
         /\ IF TooLowForEventLog(v)
            THEN pc' = "done" /\ err' = "terraform version is too low"
            ELSE pc' = "el_loop" /\ err' = err
    /\ UNCHANGED <<cfg, tfstate, resourceTypes>>
    /\ UNCHANGED elVars
    /\ UNCHANGED tdVars
    /\ unranked' = unranked

\* Head of the iteration loop: tfRunner.RunAsync starts the plan, the two
\* maps of the iteration are created empty.
\* a map declared before the loop, which keeps what earlier iterations read
KeepMap(old) == old

\* `starts := map[string]tfEvent{}`, `ends := map[string]tfEvent{}` in the
\* body of the loop: a new empty map in every iteration
NewMap(old) == EmptyMap

RunAsync ==
    /\ pc = "el_loop"
    /\ cmd' = cmd
    /\ stream' = stream
    /\ sf' = sf
    /\ rw' = rw
    /\ i < cfg.Iterations
    /\ \/ /\ pc' = "done"
          /\ err' = "starting terraform plan"
          /\ UNCHANGED <<planCalls, starts, ends, now, seen, inFlight, peak>>
       \/ /\ pc' = "el_scan"
          /\ err' = err
          /\ planCalls' = planCalls + 1
          /\ inFlight' = Started(inFlight)
          /\ peak' = Max2(peak, inFlight')
          /\ starts' = NewMap(starts)
          /\ ends' = NewMap(ends)
          /\ now' = 0
          /\ seen' = NoneSeen
    /\ UNCHANGED <<cfg, report, tfstate, resourceTypes, i, nEvents, reports,
                   resourceOverallData, wholeWorkspaceTotal, hist>>
    /\ UNCHANGED tdVars
    /\ unranked' = unranked

\* a parser that takes a complete event only from an address that started
RecordCompleteIfStarted(st, en, addr, ts) ==
    IF addr \in DOMAIN st THEN MapPut(en, addr, ts) ELSE en

\* starts[event.Hook.Resource.Addr] = event
RecordStart(st, en, addr, ts) == MapPut(st, addr, ts)

\* ends[event.Hook.Resource.Addr] = event
RecordComplete(st, en, addr, ts) == MapPut(en, addr, ts)

RefreshEvents == {"refresh_start", "refresh_complete"}

EventKinds == RefreshEvents \cup {"other"}

\* One line of the stream, of one of the given kinds, is scanned. "other" is
\* a line of another event type or one json.Unmarshal rejects. The plan
\* refreshes an address once: a stream holds at most one refresh_start and
\* one refresh_complete event of an address, in any order. The timestamp of
\* an event is the time the clock of the invocation shows, 0 before its tick
\* and TickLen after; the clock never runs backwards.
ScanEvent(kinds, addrs, maxEvents) ==
    /\ pc = "el_scan"
    /\ cmd' = cmd
    /\ stream' = stream
    /\ sf' = sf
    /\ rw' = rw
    /\ UNCHANGED <<inFlight, peak>>
    /\ nEvents < maxEvents
    /\ \E t \in {now, TickLen}, kind \in kinds, a \in addrs :
         /\ kind = "refresh_start" => seen[a] \in {"", "C"}
         /\ kind = "refresh_complete" => seen[a] \in {"", "S"}
         /\ now' = t
         /\ starts' = IF kind = "refresh_start"
                      THEN RecordStart(starts, ends, a, now')
                      ELSE starts
         /\ ends' = IF kind = "refresh_complete"
                    THEN RecordComplete(starts, ends, a, now')
                    ELSE ends
         /\ seen' = IF kind = "refresh_start"
                    THEN [seen EXCEPT ![a] = SeenStart(@)]
                    ELSE IF kind = "refresh_complete"
                    THEN [seen EXCEPT ![a] = SeenComplete(@)]
                    ELSE seen
    /\ nEvents' = nEvents + 1
    /\ UNCHANGED <<cfg, pc, err, report, tfstate, resourceTypes, i, reports,
                   resourceOverallData, wholeWorkspaceTotal, planCalls, hist>>
    /\ UNCHANGED tdVars
    /\ unranked' = unranked

\* every started address taken, the missing end event read as the zero value
PairedAlways(en, k) == TRUE

\* `if end, ok := ends[k]; ok`
Paired(en, k) == k \in DOMAIN en

\* end.Timestamp.Sub(start.Timestamp)
Duration(st, en, k) == (IF k \in DOMAIN en THEN en[k] ELSE 0) - st[k]

\* measurements[resourceType], the keys of starts ranged over in order ord
RECURSIVE Measurements(_, _, _, _)
Measurements(ord, st, en, t) ==
    IF ord = <<>> THEN <<>>
    ELSE LET k == Head(ord)
             rest == Measurements(Tail(ord), st, en, t)
         IN IF Paired(en, k) /\ TypeOf(k) = t
            THEN <<[d |-> Duration(st, en, k), id |-> k]>> \o rest
            ELSE rest

NewResourceReport(t, n) ==
    [Name |-> t, Count |-> n, TotalTime |-> 0, Max |-> 0, Min |-> MaxInt64,
     StdDev |-> 0, MaxID |-> "", MinID |-> ""]

\* the entry of an earlier iteration, its Count raised by the samples of
\* this one
RunningReportRecounted(reps, t, n) ==
    IF t \in DOMAIN reps THEN [reps[t] EXCEPT !.Count = @ + n]
    ELSE NewResourceReport(t, n)

\* `if _, ok := reports[resourceType]; ok { rr = reports[resourceType] }
\* else { reports[resourceType] = rr }`: the entry of an earlier iteration is
\* kept as it is, the new one is used for a type seen for the first time
RunningReport(reps, t, n) ==
    IF t \in DOMAIN reps THEN reps[t] ELSE NewResourceReport(t, n)

TrackMin(rr, m) ==
    IF m.d < rr.Min THEN [rr EXCEPT !.Min = m.d, !.MinID = m.id] ELSE rr

TrackMax(rr, m) ==
    IF m.d > rr.Max THEN [rr EXCEPT !.Max = m.d, !.MaxID = m.id] ELSE rr

RECURSIVE TrackAll(_, _)
TrackAll(rr, ms) ==
    IF ms = <<>> THEN rr
    ELSE TrackAll(TrackMax(TrackMin(rr, Head(ms)), Head(ms)), Tail(ms))

Durations(ms) == [p \in 1..Len(ms) |-> ms[p].d]

\* the total of the iteration instead of its mean
IterationTotal(ms) == SumSeq(Durations(ms))

\* avg := time.Duration(total / int64(len(resourceMeasurements)))
IterationAvg(ms) == Quo(SumSeq(Durations(ms)), Len(ms))

\* the body of `for resourceType, resourceMeasurements := range measurements`
AddIteration(rr, ms) ==
    [TrackAll(rr, ms) EXCEPT !.TotalTime = @ + IterationAvg(ms)]

\* one element per iteration, its mean, instead of one per measurement
AppendMean(data, ms) == Append(data, IterationAvg(ms))

\* resourceOverallData[resourceType] = append(..., float64(measurement.d))
AppendData(data, ms) == data \o Durations(ms)

\* The stream is at its end: the exit of the process is awaited, the
\* durations of the paired addresses are grouped by type and added to the
\* running reports.
EndOfStream ==
    /\ pc = "el_scan"
    /\ cmd' = cmd
    /\ stream' = stream
    /\ sf' = sf
    /\ rw' = rw
    /\ inFlight' = waitFunc(inFlight)
    /\ peak' = peak
    /\ \E ord \in Orders(DOMAIN starts) :
         LET ms(t) == Measurements(ord, starts, ends, t)
             measured == {t \in RTypes : ms(t) # <<>>}
         IN /\ reports' =
                 [t \in DOMAIN reports \cup measured |->
                    IF t \in measured
                    THEN AddIteration(RunningReport(reports, t, Len(ms(t))),
                                      ms(t))
                    ELSE reports[t]]
            /\ resourceOverallData' =
                 [t \in DOMAIN resourceOverallData \cup measured |->
                    IF t \in measured
                    THEN AppendData(IF t \in DOMAIN resourceOverallData
                                    THEN resourceOverallData[t] ELSE <<>>,
                                    ms(t))
                    ELSE resourceOverallData[t]]
            /\ hist' = Append(hist,
                 [starts |-> starts, ends |-> ends, seen |-> seen,
                  ids |-> UNION {{ms(t)[p].id : p \in 1..Len(ms(t))} :
                                 t \in RTypes}])
    /\ wholeWorkspaceTotal' = wholeWorkspaceTotal + now
    /\ i' = i + 1
    /\ pc' = "el_loop"
    /\ UNCHANGED <<cfg, err, report, tfstate, resourceTypes, now, nEvents,
                   starts, ends, planCalls, seen>>
    /\ UNCHANGED tdVars
    /\ unranked' = unranked

\* the sum of the iteration means left as it is
FinalReportUndivided(rr, data, iterations) ==
    [rr EXCEPT !.StdDev = PopStdDev(data)]

\* r.TotalTime = r.TotalTime / Iterations; r.StdDev = PopStdDev(...)
FinalReport(rr, data, iterations) ==
    [rr EXCEPT !.TotalTime = Quo(@, iterations), !.StdDev = PopStdDev(data)]

\* After the last iteration: the final statistics of every type, appended
\* in the order the map is ranged over, then ranked. Dividing by a zero
\* iteration count panics.
EventLogFinish ==
    /\ pc = "el_loop"
    /\ cmd' = cmd
    /\ stream' = stream
    /\ sf' = sf
    /\ rw' = rw
    /\ UNCHANGED <<inFlight, peak>>
    /\ i >= cfg.Iterations
    /\ IF cfg.Iterations = 0
       THEN pc' = "panic" /\ report' = report /\ unranked' = unranked
       ELSE /\ pc' = "done"
            /\ \E ord \in Orders(DOMAIN reports) :
                 /\ unranked' = [p \in 1..Len(ord) |->
                                   FinalReport(reports[ord[p]],
                                               resourceOverallData[ord[p]],
                                               cfg.Iterations)]
                 /\ report' =
                      [report EXCEPT
                         !.TotalTime =
                            Quo(wholeWorkspaceTotal, cfg.Iterations),
                         !.Resources = SortSlice(unranked', TRUE)]
    /\ UNCHANGED <<cfg, err, tfstate, resourceTypes>>
    /\ UNCHANGED elVars
    /\ UNCHANGED tdVars

\* ---------------------------------------------------- isolation strategy
\* durations one `terraform refresh` invocation is observed to take
RefreshDurations == {1, 2}

\* newReport, then the whole-workspace measurement begins.
TempDirNewReport(versions) ==
    /\ pc = "td_newReport"
    /\ cmd' = cmd
    /\ stream' = stream
    /\ sf' = sf
    /\ rw' = rw
    /\ RunCommand
    /\ \E v \in versions :
         report' = [NoReport EXCEPT !.TerraformVersion = v]
    /\ mr' = BeginMeasure("workspace")
    /\ runs' = <<>>
    /\ pc' = "mr_warm"
    /\ UNCHANGED <<cfg, err, tfstate, resourceTypes, todo, cur, refreshCalls,
                   cwd, rewrite, tmpDir, attempted, failed>>
    /\ UNCHANGED elVars
    /\ unranked' = unranked

\* The deferred calls of resourceBenchmark: back to the directory it was
\* called in, then os.RemoveAll(os.TempDir()), which removes the directory
\* or is refused by the system, the same way every time.
\* a return that leaves the process in the directory it measured in
LeaveDir(pwd, dir) == dir

\* `defer func(dir string) { _ = os.Chdir(dir) }(pwd)`
RestoreDir(pwd, dir) == pwd

\* resourceBenchmark returns: its deferred calls go back to the directory
\* it was called in and remove os.TempDir()
AfterResourceBenchmark ==
    /\ cwd' = RestoreDir("workspace", cwd)
    /\ tmpDir' \in (IF tmpDir = "present" THEN {"kept", "removed"}
                    ELSE {tmpDir})
    /\ cur' = ""

\* a loop that gives up at the first type that fails
OnTypeErrorReturn == "done"

\* `continue`: the error of resourceBenchmark is printed and the loop goes on
OnTypeError == "td_range"

\* resourceBenchmark returned an error for the type cur.
TypeFailed(t) ==
    /\ failed' = failed \cup {t}
    /\ pc' = OnTypeError
    /\ err' = IF OnTypeError = "done" THEN "resource benchmark" ELSE err
    /\ report' = report
    /\ mr' = mr
    /\ AfterResourceBenchmark

\* resourceBenchmark returned a report for the type cur: the count of the
\* type is set and the report appended.
TypeMeasured(t, d) ==
    /\ mr' = [mr EXCEPT !.result = d, !.done = TRUE]
    /\ report' = [report EXCEPT !.Resources =
                    Append(@, [NewResourceReport(t, resourceTypes[t])
                                 EXCEPT !.TotalTime = d, !.Min = 0])]
    /\ failed' = failed
    /\ pc' = "td_range"
    /\ err' = err
    /\ AfterResourceBenchmark

\* measureRefreshOnce: one `terraform refresh`, timed.
\* The first one of measureRefresh, whose result is thrown away.
MeasureWarmUp ==
    /\ pc = "mr_warm"
    /\ cmd' = cmd
    /\ stream' = stream
    /\ sf' = sf
    /\ rw' = rw
    /\ RunCommand
    /\ \E ok \in BOOLEAN, d \in RefreshDurations :
         runs' = Append(runs, [ok |-> ok, d |-> d])
    /\ refreshCalls' = refreshCalls + 1
    /\ pc' = "mr_loop"
    /\ UNCHANGED <<cfg, err, report, tfstate, resourceTypes, todo, cur, mr,
                   cwd, rewrite, tmpDir, attempted, failed>>
    /\ UNCHANGED elVars
    /\ unranked' = unranked

\* measureRefresh returns (0, err) to its caller
MeasureFailed ==
    IF mr.caller = "workspace"
    THEN /\ pc' = "done"
         /\ err' = "could not measure refresh for workspace"
         /\ UNCHANGED <<report, cur, mr, cwd, tmpDir, failed>>
    ELSE TypeFailed(cur)

\* total += one
AddRun(total, d) == total + d

\* One pass of the loop of measureRefresh.
MeasureIteration ==
    /\ pc = "mr_loop"
    /\ cmd' = cmd
    /\ stream' = stream
    /\ sf' = sf
    /\ rw' = rw
    /\ RunCommand
    /\ mr.i < cfg.Iterations
    /\ refreshCalls' = refreshCalls + 1
    /\ \E ok \in BOOLEAN, d \in RefreshDurations :
         /\ runs' = Append(runs, [ok |-> ok, d |-> d])
         /\ IF ok
            THEN /\ mr' = [mr EXCEPT !.i = @ + 1, !.total = AddRun(@, d)]
                 /\ UNCHANGED <<pc, err, report, cur, cwd, tmpDir, failed>>
            ELSE MeasureFailed
    /\ UNCHANGED <<cfg, tfstate, resourceTypes, todo, rewrite, attempted>>
    /\ UNCHANGED elVars
    /\ unranked' = unranked

\* a mean over every invocation made, the first one included
MeasureResultOverAll(total, iterations) == Quo(total, iterations + 1)

\* return time.Duration(int64(total) / int64(iterations)), nil
MeasureResult(total, iterations) == Quo(total, iterations)

\* The loop of measureRefresh is over: the mean is returned to the caller,
\* or the division by a zero iteration count panics.
MeasureReturn ==
    /\ pc = "mr_loop"
    /\ cmd' = cmd
    /\ stream' = stream
    /\ sf' = sf
    /\ rw' = rw
    /\ UNCHANGED <<inFlight, peak>>
    /\ mr.i >= cfg.Iterations
    /\ IF cfg.Iterations = 0
       THEN /\ pc' = "panic"
            /\ UNCHANGED <<err, report, todo, cur, mr, cwd, tmpDir, failed>>
       ELSE IF mr.caller = "workspace"
       THEN /\ report' = [report EXCEPT !.TotalTime =
                            MeasureResult(mr.total, cfg.Iterations)]
            /\ mr' = [mr EXCEPT !.result = report'.TotalTime, !.done = TRUE]
            /\ todo' = DOMAIN resourceTypes
            /\ pc' = "td_range"
            /\ UNCHANGED <<err, cur, cwd, tmpDir, failed>>
       ELSE /\ TypeMeasured(cur, MeasureResult(mr.total, cfg.Iterations))
            /\ todo' = todo
    /\ UNCHANGED <<cfg, tfstate, resourceTypes, runs, refreshCalls, rewrite,
                   attempted>>
    /\ UNCHANGED elVars
    /\ unranked' = unranked

\* What createModifiedTerraformConfiguration can do with the files of the
\* workspace, which are the same for every type: succeed, fail on a file it
\* cannot read or parse, or, when the tool version is nil and a file has a
\* variable, provider or terraform block, dereference the nil version.
RewriteOutcomes(v) ==
    {"ok", "error"} \cup (IF v.kind = "nil" THEN {"panic"} ELSE {})

\* The range loop takes the next type, in any order, and resourceBenchmark
\* runs up to `terraform init`: the rewritten configuration, the change into
\* os.TempDir(), the configuration and state files written there.
resourceBenchmark ==
    /\ pc = "td_range"
    /\ cmd' = cmd
    /\ stream' = stream
    /\ sf' = sf
    /\ rw' = rw
    /\ RunCommand
    /\ \E r \in todo :
         /\ todo' = todo \ {r}
         /\ attempted' = attempted \cup {r}
         /\ rewrite' \in (IF rewrite = ""
                          THEN RewriteOutcomes(report.TerraformVersion)
                          ELSE {rewrite})
         /\ \/ /\ rewrite' = "panic"
               /\ pc' = "panic"
               /\ cur' = r
               /\ UNCHANGED <<err, report, mr, cwd, tmpDir, failed>>
            \/ /\ rewrite' = "error"
               /\ TypeFailed(r)
            \/ /\ rewrite' = "ok"
               /\ TypeFailed(r)
            \/ /\ rewrite' = "ok"
               /\ tmpDir # "removed"
               /\ cur' = r
               /\ cwd' = "tmp"
               /\ pc' = "rb_init"
               /\ UNCHANGED <<err, report, mr, tmpDir, failed>>
    /\ UNCHANGED <<cfg, tfstate, resourceTypes, runs, refreshCalls>>
    /\ UNCHANGED elVars
    /\ unranked' = unranked

\* `terraform init` in the temporary directory, then measureRefresh begins.
terraformInit ==
    /\ pc = "rb_init"
    /\ cmd' = cmd
    /\ stream' = stream
    /\ sf' = sf
    /\ rw' = rw
    /\ RunCommand
    /\ \/ /\ TypeFailed(cur)
          /\ runs' = runs
       \/ /\ pc' = "mr_warm"
          /\ mr' = BeginMeasure("type")
          /\ runs' = <<>>
          /\ UNCHANGED <<err, report, cur, cwd, tmpDir, failed>>
    /\ UNCHANGED <<cfg, tfstate, resourceTypes, todo, refreshCalls, rewrite,
                   attempted>>
    /\ UNCHANGED elVars
    /\ unranked' = unranked

\* Every type was visited: the reports are ranked and the report returned.
TempDirFinish ==
    /\ pc = "td_range"
    /\ cmd' = cmd
    /\ stream' = stream
    /\ sf' = sf
    /\ rw' = rw
    /\ UNCHANGED <<inFlight, peak>>
    /\ todo = {}
    /\ report' = [report EXCEPT !.Resources = SortSlice(@, FALSE)]
    /\ unranked' = report.Resources
    /\ pc' = "done"
    /\ UNCHANGED <<cfg, err, tfstate, resourceTypes>>
    /\ UNCHANGED elVars
    /\ UNCHANGED tdVars

\* --------------------------------------------------------- specifications
OneDoc == {<<[Type |-> "A", Mode |-> "managed", Instances |-> 2],
             [Type |-> "B", Mode |-> "managed", Instances |-> 1]>>}

InitEventLog == Init /\ cfg.EventLog

\* The addresses a line of the stream may name. A.x and A.y are of one type
\* and the code treats them alike, so of two streams that differ only in
\* which of the two they name first, the one naming A.x first is explored.
NextAddrs == IF seen["A.x"] = "" THEN {"A.x"} ELSE {"A.x", "A.y"}

NextEventLog ==
    \/ RefreshBenchmark
    \/ terraformState(OneDoc)
    \/ EventLogNewReport({V0154})
    \/ RunAsync
    \/ ScanEvent(RefreshEvents, NextAddrs, MaxEvents)
    \/ EndOfStream
    \/ EventLogFinish

SpecEventLog == InitEventLog /\ [][NextEventLog]_vars

\* the whole program
StateDocs ==
    {<<>>,
     <<[Type |-> "A", Mode |-> "managed", Instances |-> 2],
       [Type |-> "B", Mode |-> "managed", Instances |-> 1]>>,
     <<[Type |-> "A", Mode |-> "managed", Instances |-> 1],
       [Type |-> "B", Mode |-> "data", Instances |-> 2],
       [Type |-> "A", Mode |-> "managed", Instances |-> 1]>>}

Next ==
    \/ RefreshBenchmark
    \/ terraformState(StateDocs)
    \/ EventLogNewReport(Versions)
    \/ RunAsync
    \/ ScanEvent(RefreshEvents, {"A.x", "B.z"}, MaxPlanEvents)
    \/ EndOfStream
    \/ EventLogFinish
    \/ TempDirNewReport(Versions)
    \/ MeasureWarmUp
    \/ MeasureIteration
    \/ MeasureReturn
    \/ resourceBenchmark
    \/ terraformInit
    \/ TempDirFinish

Spec == Init /\ [][Next]_vars

\* the ranking on its own, applied to every list of per-type results of up
\* to MaxSortLen types
SortNames == <<"t1", "t2", "t3", "t4", "t5", "t6", "t7", "t8", "t9">>

SortInputs ==
    UNION {[1..n -> [TotalTime : {1, 2}, Count : {1, 3}]] : n \in 0..MaxSortLen}

InitSort ==
    /\ cfg \in [Iterations : {1}, EventLog : BOOLEAN]
    /\ pc = "rank"
    /\ err = Nil
    /\ \E in \in SortInputs :
         report = [NoReport EXCEPT !.Resources =
                     [p \in 1..Len(in) |->
                        [NewResourceReport(SortNames[p], in[p].Count)
                           EXCEPT !.TotalTime = in[p].TotalTime, !.Min = 0]]]
    /\ tfstate = <<>>
    /\ resourceTypes = EmptyMap
    /\ i = 0
    /\ now = 0
    /\ nEvents = 0
    /\ starts = EmptyMap
    /\ ends = EmptyMap
    /\ reports = EmptyMap
    /\ resourceOverallData = EmptyMap
    /\ wholeWorkspaceTotal = 0
    /\ planCalls = 0
    /\ hist = <<>>
    /\ seen = NoneSeen
    /\ todo = {}
    /\ cur = ""
    /\ mr = NoMeasure
    /\ runs = <<>>
    /\ refreshCalls = 0
    /\ cwd = "workspace"
    /\ rewrite = ""
    /\ tmpDir = "present"
    /\ unranked = <<>>
    /\ attempted = {}
    /\ failed = {}
    /\ inFlight = 0
    /\ peak = 0
    /\ rw = NoRewrite
    /\ cmd = NoCommand
    /\ stream = NoStream
    /\ sf = NoFilter

\* the last statement of either strategy before it returns the report
Rank ==
    /\ pc = "rank"
    /\ cmd' = cmd
    /\ stream' = stream
    /\ sf' = sf
    /\ rw' = rw
    /\ UNCHANGED <<inFlight, peak>>
    /\ unranked' = report.Resources
    /\ report' = [report EXCEPT !.Resources = SortSlice(@, cfg.EventLog)]
    /\ pc' = "done"
    /\ UNCHANGED <<cfg, err, tfstate, resourceTypes>>
    /\ UNCHANGED elVars
    /\ UNCHANGED tdVars

NextSort == Rank

SpecSort == InitSort /\ [][NextSort]_vars

\* ----------------------------------------------- configuration rewriter
\* A block of a configuration file: its type, its labels, the blocks nested
\* in its body and the attributes of its body (name -> expression).
Block(type, labels, subs, attrs) ==
    [Type |-> type, Labels |-> labels, Subs |-> subs, Attrs |-> attrs]

Literal == "literal"    \* an expression that references no variable
VarRef == "var.x"       \* an expression that references an input variable

Attributes(lits, refs) ==
    [n \in lits \cup refs |-> IF n \in refs THEN VarRef ELSE Literal]

Backend == Block("backend", <<"s3">>, <<>>, Attributes({"bucket"}, {}))
RequiredProviders(names) ==
    Block("required_providers", <<>>, <<>>, Attributes(names, {}))

ConfigBlocks ==
    { Block("variable", <<"x">>, <<>>, Attributes({}, {})),
      Block("resource", <<"aws_s3_bucket", "b">>, <<>>,
            Attributes({"acl"}, {})),
      Block("provider", <<"aws">>, <<>>, Attributes({"region"}, {"token"})),
      Block("provider", <<"azurerm">>, <<>>, Attributes({}, {"token"})),
      Block("provider", <<>>, <<>>, Attributes({}, {})),
      Block("terraform", <<>>,
            <<Backend, RequiredProviders({"aws", "azurerm"})>>,
            Attributes({}, {})),
      Block("terraform", <<>>, <<RequiredProviders({"azurerm"})>>,
            Attributes({"required_version"}, {})) }

\* the blocks of the *.tf files of the workspace, in the order read
Configs == UNION {[1..n -> ConfigBlocks] : n \in 0..MaxBlocks}

\* resource type names, as their tokens between underscores
Targets == {<<"aws", "s3", "bucket">>, <<"random", "id">>}

\* strings.Split(resource.Name, "_")[0]
Prefix(name) == name[1]

tf15 == Version("ok", <<0, 15, 0>>)

\* a version that cannot be parsed taken for v0.15
RewriterVersionOrTf15(v) == IF v.kind = "ok" THEN v ELSE tf15

\* version.NewVersion(tfVersion.TerraformVersion), v0.12 when it fails
RewriterVersion(v) ==
    IF v.kind = "ok" THEN v ELSE Version("ok", <<0, 12, 0>>)

KeptTypes == {"variable", "provider", "terraform"}

\* a rewriter that leaves the backend in place
RemoveNoBlock(sub) == FALSE

\* `if tfBlock.Type() == "backend"`: the block is removed
RemoveBlock(sub) == sub.Type = "backend"

\* The loop over the blocks nested in a terraform block.
RECURSIVE StripSubs(_, _)
StripSubs(subs, prefix) ==
    IF subs = <<>> THEN <<>>
    ELSE LET b == Head(subs)
             rest == StripSubs(Tail(subs), prefix)
         IN IF RemoveBlock(b) THEN rest
            ELSE IF b.Type = "required_providers"
            THEN <<[b EXCEPT !.Attrs =
                      [n \in DOMAIN b.Attrs \cap {prefix} |-> b.Attrs[n]]]>>
                 \o rest
            ELSE <<b>> \o rest

\* What `terraform console` writes for one attribute, call after call: the
\* value, the placeholder of a sensitive value, or nothing when the
\* console failed (its errors are printed and ignored).
ConsoleOutputs ==
    { <<"value">>, <<"">>, <<"(sensitive)", "value">>,
      <<"(sensitive)", "">>, <<"(sensitive)", "(sensitive)">> }

\* eval: the trimmed output of the console, or a second call with
\* nonsensitive() when the first one printed the placeholder
RECURSIVE eval(_, _)
eval(outs, sensitive) ==
    LET s == Head(outs)
    IN IF s = "(sensitive)" /\ ~sensitive
       THEN eval(Tail(outs), TRUE)
       ELSE s

evaluate(outs) == eval(outs, FALSE)

\* attributes of a block whose expression has variables
VarAttrs(b) == {n \in DOMAIN b.Attrs : b.Attrs[n] = VarRef}

mainVars == <<cfg, pc, err, report, tfstate, resourceTypes, unranked, cmd,
              stream, sf>>

\* os.ReadFile and hclwrite.ParseConfig of the files
ParseConfig ==
    /\ pc = "rewrite"
    /\ rw.status = "idle"
    /\ \/ rw' = [rw EXCEPT !.status = "error"]
       \/ rw' = [rw EXCEPT !.status = "run"]
    /\ UNCHANGED <<inFlight, peak>>
    /\ UNCHANGED <<mainVars, elVars, tdVars>>

\* One pass of the loop over the blocks.
RewriteBlock ==
    /\ pc = "rewrite"
    /\ rw.status = "run"
    /\ rw.pos <= Len(rw.blocks)
    /\ LET b == rw.blocks[rw.pos]
           prefix == Prefix(rw.name)
           t == IF b.Type = "terraform"
                THEN [b EXCEPT !.Subs = StripSubs(@, prefix)]
                ELSE b
           tfv == RewriterVersion(rw.version)
       IN IF b.Type \notin KeptTypes
          THEN /\ rw' = [rw EXCEPT !.pos = @ + 1]
               /\ UNCHANGED <<inFlight, peak>>
          ELSE IF rw.version.kind = "nil"
          THEN /\ rw' = [rw EXCEPT !.status = "panic"]
               /\ UNCHANGED <<inFlight, peak>>
          ELSE IF /\ t.Type = "provider"
                  /\ ~VersionLess(tfv, tf15)
                  /\ Len(t.Labels) > 0
          THEN IF t.Labels[1] # prefix
               THEN /\ rw' = [rw EXCEPT !.pos = @ + 1]
                    /\ UNCHANGED <<inFlight, peak>>
               ELSE /\ \E outs \in [VarAttrs(t) -> ConsoleOutputs] :
                         rw' = [rw EXCEPT
                                  !.pos = @ + 1,
                                  !.evals = @ \cup {outs[n] : n \in VarAttrs(t)},
                                  !.out = Append(@, [t EXCEPT !.Attrs =
                                     [n \in DOMAIN t.Attrs |->
                                        IF n \in VarAttrs(t)
                                        THEN evaluate(outs[n])
                                        ELSE t.Attrs[n]]])]
                    /\ IF VarAttrs(t) # {} THEN RunCommand
                       ELSE UNCHANGED <<inFlight, peak>>
          ELSE /\ rw' = [rw EXCEPT !.pos = @ + 1, !.out = Append(@, t)]
               /\ UNCHANGED <<inFlight, peak>>
    /\ UNCHANGED <<mainVars, elVars, tdVars>>

\* return modifiedTfFile.Bytes(), nil
RewriteReturn ==
    /\ pc = "rewrite"
    /\ rw.status = "run"
    /\ rw.pos > Len(rw.blocks)
    /\ rw' = [rw EXCEPT !.status = "ok"]
    /\ UNCHANGED <<inFlight, peak>>
    /\ UNCHANGED <<mainVars, elVars, tdVars>>

InitRewrite ==
    /\ cfg = [Iterations |-> 1, EventLog |-> FALSE]
    /\ pc = "rewrite"
    /\ err = Nil
    /\ report = NoReport
    /\ tfstate = <<>>
    /\ resourceTypes = EmptyMap
    /\ i = 0
    /\ now = 0
    /\ nEvents = 0
    /\ starts = EmptyMap
    /\ ends = EmptyMap
    /\ reports = EmptyMap
    /\ resourceOverallData = EmptyMap
    /\ wholeWorkspaceTotal = 0
    /\ planCalls = 0
    /\ hist = <<>>
    /\ seen = NoneSeen
    /\ todo = {}
    /\ cur = ""
    /\ mr = NoMeasure
    /\ runs = <<>>
    /\ refreshCalls = 0
    /\ cwd = "workspace"
    /\ rewrite = ""
    /\ tmpDir = "present"
    /\ unranked = <<>>
    /\ attempted = {}
    /\ failed = {}
    /\ inFlight = 0
    /\ peak = 0
    /\ \E name \in Targets, v \in Versions, c \in Configs :
         rw = [NoRewrite EXCEPT !.name = name, !.version = v, !.blocks = c]
    /\ cmd = NoCommand
    /\ stream = NoStream
    /\ sf = NoFilter

NextRewrite ==
    \/ ParseConfig
    \/ RewriteBlock
    \/ RewriteReturn

SpecRewrite == InitRewrite /\ [][NextRewrite]_vars

\* ------------------------------------- one iteration, line by line
\* The plan process writes its lines to the pipe of RunAsync and exits when
\* it has written them all; the benchmark reads them with a bufio.Scanner.
MaxLines == 3       \* lines the plan process writes in one iteration
PipeCap == 1        \* lines the pipe holds before a write blocks

\* a line of the stream: an event, a line json.Unmarshal rejects, a line
\* longer than the largest token of the scanner
LineKinds == {"refresh_start", "refresh_complete", "malformed", "long"}

Streams == UNION {[1..n -> LineKinds] : n \in 0..MaxLines}

streamRest == <<cfg, pc, err, report, tfstate, resourceTypes, unranked, cmd,
                rw, inFlight, peak, sf>>

\* the process writes its next line; the write blocks while the pipe is full
ProcWrite ==
    /\ stream.proc = "running"
    /\ stream.todo # <<>>
    /\ Len(stream.pipe) < PipeCap
    /\ stream' = [stream EXCEPT !.pipe = Append(@, Head(stream.todo)),
                                !.todo = Tail(@)]
    /\ UNCHANGED <<streamRest, elVars, tdVars>>

\* the process has written everything and exits, with success or not
ProcExit ==
    /\ stream.proc = "running"
    /\ stream.todo = <<>>
    /\ \E ok \in BOOLEAN :
         stream' = [stream EXCEPT !.proc = "exited", !.exitOk = ok]
    /\ UNCHANGED <<streamRest, elVars, tdVars>>

\* a scanner whose buffer takes a line of any length
ScanStopsNever(line) == FALSE

\* scanner.Scan() returns false at a token that does not fit its buffer
\* (bufio.MaxScanTokenSize); the loop has no scanner.Buffer call
ScanStops(line) == line = "long"

\* `for scanner.Scan()`: one line is taken from the pipe; a malformed line
\* is logged and skipped; at a line the scanner cannot take the loop ends.
ScanLine ==
    /\ stream.pc = "scan"
    /\ stream.pipe # <<>>
    /\ LET line == Head(stream.pipe)
       IN stream' = IF ScanStops(line)
                    THEN [stream EXCEPT !.pipe = Tail(@), !.pc = "wait"]
                    ELSE [stream EXCEPT
                            !.pipe = Tail(@),
                            !.read = IF line = "malformed" THEN @
                                     ELSE Append(@, line)]
    /\ UNCHANGED <<streamRest, elVars, tdVars>>

\* scanner.Scan() returns false at the end of the stream: the process has
\* exited and the pipe is empty
ScanEOF ==
    /\ stream.pc = "scan"
    /\ stream.pipe = <<>>
    /\ stream.proc = "exited"
    /\ stream' = [stream EXCEPT !.eof = TRUE, !.pc = "wait"]
    /\ UNCHANGED <<streamRest, elVars, tdVars>>

\* `err = waitFunc()`: c.Wait returns once the process has exited, with an
\* error when it exited in failure; the error is logged
Wait ==
    /\ stream.pc = "wait"
    /\ stream.proc = "exited"
    /\ stream' = [stream EXCEPT
                    !.waited = TRUE,
                    !.waitErr = IF stream.exitOk THEN Nil ELSE "exit status 1",
                    !.pc = "finish"]
    /\ UNCHANGED <<streamRest, elVars, tdVars>>

\* bar.Finish()
BarFinish ==
    /\ stream.pc = "finish"
    /\ stream' = [stream EXCEPT !.barFinished = TRUE, !.pc = "stats"]
    /\ UNCHANGED <<streamRest, elVars, tdVars>>

\* an iteration that returns the error of the wait
AfterWaitReturnError(e) == IF e = Nil THEN "report" ELSE "error"

\* `if err != nil { logger.Warn(...) }`: the iteration goes on to its
\* statistics whatever the wait returned
AfterWait(e) == "report"

\* the durations and the statistics of the iteration
IterationStats ==
    /\ stream.pc = "stats"
    /\ stream' = [stream EXCEPT !.result = AfterWait(stream.waitErr),
                                !.pc = "done"]
    /\ UNCHANGED <<streamRest, elVars, tdVars>>

InitStream ==
    /\ cfg \in [Iterations : {1}, EventLog : {TRUE}]
    /\ pc = "stream"
    /\ err = Nil
    /\ report = NoReport
    /\ tfstate = <<>>
    /\ resourceTypes = EmptyMap
    /\ i = 0
    /\ now = 0
    /\ nEvents = 0
    /\ starts = EmptyMap
    /\ ends = EmptyMap
    /\ reports = EmptyMap
    /\ resourceOverallData = EmptyMap
    /\ wholeWorkspaceTotal = 0
    /\ planCalls = 0
    /\ hist = <<>>
    /\ seen = NoneSeen
    /\ todo = {}
    /\ cur = ""
    /\ mr = NoMeasure
    /\ runs = <<>>
    /\ refreshCalls = 0
    /\ cwd = "workspace"
    /\ rewrite = ""
    /\ tmpDir = "present"
    /\ unranked = <<>>
    /\ attempted = {}
    /\ failed = {}
    /\ inFlight = 0
    /\ peak = 0
    /\ rw = NoRewrite
    /\ cmd = NoCommand
    /\ sf = NoFilter
    /\ \E lines \in Streams :
         stream = [NoStream EXCEPT !.pc = "scan", !.todo = lines,
                                   !.proc = "running"]

NextStream ==
    \/ ProcWrite
    \/ ProcExit
    \/ ScanLine
    \/ ScanEOF
    \/ Wait
    \/ BarFinish
    \/ IterationStats

SpecStream == InitStream /\ [][NextStream]_vars

\* the process and the benchmark both take their next step when they can
SpecStreamLive == SpecStream /\ WF_vars(NextStream)

\* ------------------------------------- the state of an isolation run
MaxRecords == 2     \* resource records in the state that is filtered

\* float64 holds every integer up to 2^53; MaxExact stands for 2^53 within
\* the integers of the checker
MaxExact == 1073741824
Big == MaxExact + 1

\* json.Unmarshal into interface{}: a JSON number becomes the nearest
\* float64, ties to even
Float64(n) ==
    IF n <= MaxExact THEN n
    ELSE IF n % 2 = 0 THEN n
    ELSE IF (n - 1) % 4 = 0 THEN n - 1 ELSE n + 1

\* an instance is the value of one numeric attribute of it
FilterRecords == [type : RTypes, instances : {<<1>>, <<Big>>, <<1, Big>>}]

FilterDocs ==
    [serial : {1, 7},
     resources : UNION {[1..n -> FilterRecords] : n \in 0..MaxRecords}]

DecodeRecord(r) ==
    [r EXCEPT !.instances = [q \in 1..Len(@) |-> Float64(@[q])]]

\* the value json.Unmarshal(state, &s) builds
Decode(doc) ==
    [serial |-> Float64(doc.serial),
     resources |-> [p \in 1..Len(doc.resources) |->
                      DecodeRecord(doc.resources[p])]]

RECURSIVE SelectType(_, _)
SelectType(rs, t) ==
    IF rs = <<>> THEN <<>>
    ELSE IF Head(rs).type = t THEN <<Head(rs)>> \o SelectType(Tail(rs), t)
    ELSE SelectType(Tail(rs), t)

\* del(.resources[] | select(.type != "<name>")): the paths of the records
\* of another type are deleted, the rest of the value is left as it is
DelOtherTypes(doc, t) == [doc EXCEPT !.resources = SelectType(@, t)]

filterRest == <<cfg, pc, err, report, tfstate, resourceTypes, unranked, cmd,
                rw, inFlight, peak, stream>>

\* json.Unmarshal(state, &s)
UnmarshalState ==
    /\ sf.pc = "unmarshal"
    /\ sf' = [sf EXCEPT !.s = Decode(sf.state), !.pc = "query"]
    /\ UNCHANGED <<filterRest, elVars, tdVars>>

\* iter := query.Run(s); v, ok := iter.Next()
RunQuery ==
    /\ sf.pc = "query"
    /\ sf' = [sf EXCEPT !.v = DelOtherTypes(sf.s, sf.target), !.pc = "marshal"]
    /\ UNCHANGED <<filterRest, elVars, tdVars>>

\* json.Marshal(v) and os.WriteFile(stateFileName, ...): a float64 that is
\* an integer is written with all its digits
WriteState ==
    /\ sf.pc = "marshal"
    /\ sf' = [sf EXCEPT !.out = sf.v, !.pc = "written"]
    /\ UNCHANGED <<filterRest, elVars, tdVars>>

InitFilter ==
    /\ cfg \in [Iterations : {1}, EventLog : {FALSE}]
    /\ pc = "filter"
    /\ err = Nil
    /\ report = NoReport
    /\ tfstate = <<>>
    /\ resourceTypes = EmptyMap
    /\ i = 0
    /\ now = 0
    /\ nEvents = 0
    /\ starts = EmptyMap
    /\ ends = EmptyMap
    /\ reports = EmptyMap
    /\ resourceOverallData = EmptyMap
    /\ wholeWorkspaceTotal = 0
    /\ planCalls = 0
    /\ hist = <<>>
    /\ seen = NoneSeen
    /\ todo = {}
    /\ cur = ""
    /\ mr = NoMeasure
    /\ runs = <<>>
    /\ refreshCalls = 0
    /\ cwd = "workspace"
    /\ rewrite = ""
    /\ tmpDir = "present"
    /\ unranked = <<>>
    /\ attempted = {}
    /\ failed = {}
    /\ inFlight = 0
    /\ peak = 0
    /\ rw = NoRewrite
    /\ cmd = NoCommand
    /\ stream = NoStream
    /\ \E doc \in FilterDocs, t \in RTypes :
         sf = [NoFilter EXCEPT !.pc = "unmarshal", !.target = t,
                               !.state = doc]

NextFilter ==
    \/ UnmarshalState
    \/ RunQuery
    \/ WriteState

SpecFilter == InitFilter /\ [][NextFilter]_vars

\* ---------------------------------------------------- the refresh command
benchVars == <<cfg, err, report, tfstate, resourceTypes, unranked, rw,
               stream, sf>>

\* Command.PreRunE: validateEnv runs `terraform -help` and looks for the
\* environment variables; when it fails cobra does not call RunE.
refreshPreRun ==
    /\ cmd.pc = "preRun"
    /\ RunCommand
    /\ \/ /\ cmd' = [cmd EXCEPT !.pc = "execute", !.err = "validateEnv"]
          /\ pc' = pc
       \/ /\ cmd' = [cmd EXCEPT !.pc = "run"]
          /\ pc' = pc
    /\ UNCHANGED <<benchVars, elVars, tdVars>>

\* Head of refreshRun: the logger is made, the benchmark called.
refreshRun ==
    /\ cmd.pc = "run"
    /\ pc = "idle"
    /\ \/ /\ cmd' = [cmd EXCEPT !.pc = "execute", !.err = "logger"]
          /\ pc' = pc
       \/ /\ cmd' = cmd
          /\ pc' = "RefreshBenchmark"
    /\ UNCHANGED <<inFlight, peak>>
    /\ UNCHANGED <<benchVars, elVars, tdVars>>

\* The benchmark returned: its error is returned, or the report printed.
refreshPrint ==
    /\ cmd.pc = "run"
    /\ pc = "done"
    /\ cmd' = IF err # Nil
              THEN [cmd EXCEPT !.pc = "execute", !.err = err]
              ELSE [cmd EXCEPT !.pc = "write", !.printed = TRUE]
    /\ UNCHANGED <<pc, inFlight, peak>>
    /\ UNCHANGED <<benchVars, elVars, tdVars>>

\* os.WriteFile of the report text to the timestamped file
refreshWrite ==
    /\ cmd.pc = "write"
    /\ \/ cmd' = [cmd EXCEPT !.pc = "execute",
                             !.err = "could not write report to file"]
       \/ cmd' = [cmd EXCEPT !.pc = "execute", !.written = TRUE]
    /\ UNCHANGED <<pc, inFlight, peak>>
    /\ UNCHANGED <<benchVars, elVars, tdVars>>

\* Execute: `_ = rootCmd.Execute()`, the error of the command is dropped and
\* nothing is returned to main, which returns: status 0
ExitStatus(e) == 0

\* rootCmd.Execute has returned to Execute.
Execute ==
    /\ cmd.pc = "execute"
    /\ cmd' = [cmd EXCEPT !.pc = "exited", !.exit = ExitStatus(cmd.err)]
    /\ UNCHANGED <<pc, inFlight, peak>>
    /\ UNCHANGED <<benchVars, elVars, tdVars>>

\* A panic in the benchmark ends the process: the Go runtime exits with 2.
Crash ==
    /\ cmd.pc = "run"
    /\ pc = "panic"
    /\ cmd' = [cmd EXCEPT !.pc = "exited", !.exit = 2]
    /\ UNCHANGED <<pc, inFlight, peak>>
    /\ UNCHANGED <<benchVars, elVars, tdVars>>

InitCommand ==
    /\ cfg \in [Iterations : 0..MaxIter, EventLog : BOOLEAN]
    /\ pc = "idle"
    /\ err = Nil
    /\ report = NoReport
    /\ tfstate = <<>>
    /\ resourceTypes = EmptyMap
    /\ i = 0
    /\ now = 0
    /\ nEvents = 0
    /\ starts = EmptyMap
    /\ ends = EmptyMap
    /\ reports = EmptyMap
    /\ resourceOverallData = EmptyMap
    /\ wholeWorkspaceTotal = 0
    /\ planCalls = 0
    /\ hist = <<>>
    /\ seen = NoneSeen
    /\ todo = {}
    /\ cur = ""
    /\ mr = NoMeasure
    /\ runs = <<>>
    /\ refreshCalls = 0
    /\ cwd = "workspace"
    /\ rewrite = ""
    /\ tmpDir = "present"
    /\ unranked = <<>>
    /\ attempted = {}
    /\ failed = {}
    /\ inFlight = 0
    /\ peak = 0
    /\ rw = NoRewrite
    /\ cmd = [NoCommand EXCEPT !.pc = "preRun"]
    /\ stream = NoStream
    /\ sf = NoFilter

NextCommand ==
    \/ refreshPreRun
    \/ refreshRun
    \/ RefreshBenchmark
    \/ terraformState(OneDoc)
    \/ EventLogNewReport({V0153, V0154})
    \/ RunAsync
    \/ ScanEvent(EventKinds, {"A.x"}, MaxPlanEvents)
    \/ EndOfStream
    \/ EventLogFinish
    \/ TempDirNewReport({NilVersion, V0154})
    \/ MeasureWarmUp
    \/ MeasureIteration
    \/ MeasureReturn
    \/ resourceBenchmark
    \/ terraformInit
    \/ TempDirFinish
    \/ refreshPrint
    \/ refreshWrite
    \/ Execute
    \/ Crash

SpecCommand == InitCommand /\ [][NextCommand]_vars

\* ================================================================ claims
Resources == report.Resources
Returned == pc = "done" /\ err = Nil
Cost(r) == r.TotalTime * r.Count
RankKey(r) == IF cfg.EventLog THEN Cost(r) ELSE r.TotalTime

\* C1 (as amended): the Resources list of a returned report is ordered by
\* non-increasing TotalTime x Count when the event-stream strategy produced
\* it, and by non-increasing TotalTime when the isolation strategy did.
C1_RankedByStrategyKey ==
    Returned =>
        \A p, q \in 1..Len(Resources) :
            p < q => RankKey(Resources[p]) >= RankKey(Resources[q])

\* C1 as claimed: ordered by non-increasing TotalTime x Count for both
\* strategies.
C1_RankedByCost ==
    Returned =>
        \A p, q \in 1..Len(Resources) :
            p < q => Cost(Resources[p]) >= Cost(Resources[q])

\* the event-stream ranking put a type with the smaller mean first, because
\* its mean x count is the larger
C1_Witness ==
    /\ Returned
    /\ cfg.EventLog
    /\ unranked # Resources
    /\ \E p, q \in 1..Len(Resources) :
         /\ p < q
         /\ Resources[p].TotalTime < Resources[q].TotalTime
         /\ Cost(Resources[p]) > Cost(Resources[q])

Pos(s, name) == CHOOSE p \in 1..Len(s) : s[p].Name = name

IsPermutation(s, t) ==
    /\ Len(s) = Len(t)
    /\ \A p \in 1..Len(t) : \E q \in 1..Len(s) : s[q] = t[p]
    /\ \A p, q \in 1..Len(s) : p # q => s[p].Name # s[q].Name

KeepsTieOrder(s, t) ==
    \A p, q \in 1..Len(t) :
        (p < q /\ RankKey(t[p]) = RankKey(t[q]))
            => Pos(s, t[p].Name) < Pos(s, t[q].Name)

\* C2 (as amended): the ranking only reorders, the returned Resources list
\* is a permutation of the per-type stats the strategy produced; two stats
\* with equal key keep their relative order in a list of at most 6 entries.
C2_PermutationTiesKeptUpTo6 ==
    Returned =>
        /\ IsPermutation(Resources, unranked)
        /\ Len(unranked) <= 6 => KeepsTieOrder(Resources, unranked)

\* C2 as claimed: a permutation in which any two stats with equal key keep
\* the relative order they had before the ranking.
C2_PermutationStable ==
    Returned =>
        /\ IsPermutation(Resources, unranked)
        /\ KeepsTieOrder(Resources, unranked)

\* the ranking moved entries of a list that has two stats with equal key
C2_Witness ==
    /\ Returned
    /\ unranked # Resources
    /\ \E p, q \in 1..Len(unranked) :
         p < q /\ RankKey(unranked[p]) = RankKey(unranked[q])

\* ------------------------------------------- the event-stream statistics
\* What the iterations read, from the history: the addresses of type t that
\* iteration k paired, and the duration of each.
SamplesOf(k, t) ==
    {a \in DOMAIN hist[k].starts \cap DOMAIN hist[k].ends : TypeOf(a) = t}

Dur(k, a) == hist[k].ends[a] - hist[k].starts[a]

RECURSIVE SumDur(_, _)
SumDur(k, S) ==
    IF S = {} THEN 0
    ELSE LET a == CHOOSE x \in S : TRUE
         IN Dur(k, a) + SumDur(k, S \ {a})

\* the mean of iteration k for type t; nothing when it paired no address
MeanOf(k, t) ==
    IF SamplesOf(k, t) = {} THEN 0
    ELSE Quo(SumDur(k, SamplesOf(k, t)), Cardinality(SamplesOf(k, t)))

RECURSIVE SumMeans(_, _)
SumMeans(k, t) == IF k = 0 THEN 0 ELSE MeanOf(k, t) + SumMeans(k - 1, t)

\* every sample of type t, as <<iteration, address, duration>>
Samples(t) ==
    UNION {{<<k, a, Dur(k, a)>> : a \in SamplesOf(k, t)} : k \in 1..Len(hist)}

RECURSIVE SumD(_)
SumD(S) ==
    IF S = {} THEN 0
    ELSE LET x == CHOOSE y \in S : TRUE IN x[3] + SumD(S \ {x})

RECURSIVE SumD2(_)
SumD2(S) ==
    IF S = {} THEN 0
    ELSE LET x == CHOOSE y \in S : TRUE IN x[3] * x[3] + SumD2(S \ {x})

\* r is the population standard deviation of the samples S, truncated:
\* r^2 <= variance < (r+1)^2, with variance = (N * sum d^2 - (sum d)^2) / N^2
IsPopStdDev(r, S) ==
    LET n == Cardinality(S)
        v == n * SumD2(S) - SumD(S) * SumD(S)
    IN r >= 0 /\ r * r * n * n <= v /\ v < (r + 1) * (r + 1) * n * n

EventLogReturned == Returned /\ cfg.EventLog

\* C3: event-stream strategy, for every resource type in the report the
\* final TotalTime is the sum over the iterations of the iteration's
\* (integer) mean duration across the type's paired addresses, divided by
\* the configured iteration count.
C3_MeanOfIterationMeans ==
    EventLogReturned =>
        \A p \in 1..Len(Resources) :
            Resources[p].TotalTime =
                Quo(SumMeans(Len(hist), Resources[p].Name), cfg.Iterations)

\* a type that two iterations sampled, with different numbers of addresses,
\* and whose mean of means differs from the mean of its pooled durations
C3_Witness ==
    /\ EventLogReturned
    /\ Len(hist) = 2
    /\ \E p \in 1..Len(Resources) :
         LET t == Resources[p].Name
         IN /\ Cardinality(SamplesOf(1, t)) = 2
            /\ Cardinality(SamplesOf(2, t)) = 1
            /\ Resources[p].TotalTime #
                 Quo(SumD(Samples(t)), Cardinality(Samples(t)))

\* C4: event-stream strategy, the standard deviation of a type is the
\* population standard deviation (denominator N) of every address-level
\* duration of the type from all iterations, one element per paired address
\* per iteration.
C4_PooledStdDev ==
    EventLogReturned =>
        \A p \in 1..Len(Resources) :
            IsPopStdDev(Resources[p].StdDev, Samples(Resources[p].Name))

\* a type with three samples from two iterations and a standard deviation
\* that is not zero
C4_Witness ==
    /\ EventLogReturned
    /\ Len(hist) = 2
    /\ \E p \in 1..Len(Resources) :
         LET t == Resources[p].Name
         IN /\ SamplesOf(1, t) # {}
            /\ SamplesOf(2, t) # {}
            /\ Cardinality(Samples(t)) = 3
            /\ Resources[p].StdDev > 0

MinD(S) == CHOOSE d \in {x[3] : x \in S} : \A x \in S : d <= x[3]
MaxD(S) == CHOOSE d \in {x[3] : x \in S} : \A x \in S : d >= x[3]

\* C5: event-stream strategy, for every reported type Min is the smallest
\* and Max the largest duration among all of the type's paired samples over
\* all iterations, and MinID / MaxID is the address of a sample whose
\* duration equals Min / Max.
C5_MinMaxAndOwners ==
    EventLogReturned =>
        \A p \in 1..Len(Resources) :
            LET r == Resources[p]
                S == Samples(r.Name)
            IN /\ r.Min = MinD(S)
               /\ r.Max = MaxD(S)
               /\ \E x \in S : x[2] = r.MinID /\ x[3] = r.Min
               /\ \E x \in S : x[2] = r.MaxID /\ x[3] = r.Max

\* the addresses of type t that iteration k read a start event of, but no
\* complete event
StartedOnly(k, t) == {a \in Addrs : TypeOf(a) = t /\ hist[k].seen[a] = "S"}

\* the first iteration that paired an address of type t
FirstSampled(t) ==
    CHOOSE k \in 1..Len(hist) :
        SamplesOf(k, t) # {} /\ \A j \in 1..(k - 1) : SamplesOf(j, t) = {}

\* C6: event-stream strategy, an address with a refresh_start event but no
\* refresh_complete event in an iteration's stream contributes no sample in
\* that iteration: the running report of its type counts, averages and
\* pools the paired addresses only, and MinID / MaxID is one of them.
\* (Stated where an iteration has ended: the running reports and the
\* history do not change while a stream is scanned.)
C6_UnpairedStartAddsNothing ==
    pc # "el_scan" =>
    \A t \in RTypes :
        LET S == Samples(t)
        IN /\ (\A k \in 1..Len(hist) : StartedOnly(k, t) \cap hist[k].ids = {})
           /\ t \in DOMAIN reports <=> S # {}
           /\ S # {} =>
                /\ Len(resourceOverallData[t]) = Cardinality(S)
                /\ SumSeq(resourceOverallData[t]) = SumD(S)
                /\ reports[t].Count =
                     Cardinality(SamplesOf(FirstSampled(t), t))
                /\ reports[t].TotalTime = SumMeans(Len(hist), t)
                /\ reports[t].MinID \in {x[2] : x \in S} \cup {""}
                /\ reports[t].MaxID \in {x[2] : x \in S} \cup {""}

\* an iteration read a start event only of one address and paired another
\* address of the same type
C6_Witness ==
    \E k \in 1..Len(hist), t \in RTypes :
        /\ StartedOnly(k, t) # {}
        /\ SamplesOf(k, t) # {}
        /\ t \in DOMAIN reports

\* C7 (as amended): an address yields a sample in an iteration exactly when
\* the stream of the iteration holds a refresh_start event and a
\* refresh_complete event of the address, in either order.
C7_SampleIffBothKindsRead ==
    \A k \in 1..Len(hist), a \in Addrs :
        a \in hist[k].ids <=> hist[k].seen[a] \in {"SC", "CS"}

\* C7 as claimed: an address yields a sample only if its refresh_start event
\* occurs in the stream before its refresh_complete event (a complete event
\* of an address that has not started does not count).
C7_SampleOnlyIfStartedFirst ==
    \A k \in 1..Len(hist), a \in Addrs :
        a \in hist[k].ids => hist[k].seen[a] = "SC"

\* a complete event read before the start event of its address formed a
\* sample with it
C7_Witness ==
    \E k \in 1..Len(hist), a \in Addrs :
        a \in hist[k].ids /\ hist[k].seen[a] = "CS"

\* -------------------------------------------------- the whole benchmark
\* v is a parsed version below 0.15.4
BelowV0154(v) ==
    /\ v.kind = "ok"
    /\ v.seg[1] = 0
    /\ v.seg[2] < 15 \/ (v.seg[2] = 15 /\ v.seg[3] < 4)

\* C8: when the event-stream strategy is selected and the detected tool
\* version is below 0.15.4, the benchmark returns an error and no report,
\* no plan was started and the isolation strategy did not run (no refresh).
C8_LowVersionFailsFast ==
    (cfg.EventLog /\ BelowV0154(report.TerraformVersion)) =>
        /\ pc = "done"
        /\ err # Nil
        /\ planCalls = 0
        /\ refreshCalls = 0
        /\ Resources = <<>>
        /\ attempted = {}

\* the event-stream strategy met version 0.15.3
C8_Witness ==
    /\ cfg.EventLog
    /\ report.TerraformVersion = V0153
    /\ pc = "done"

RECURSIVE SumRuns(_, _)
SumRuns(from, to) ==
    IF from > to THEN 0 ELSE runs[from].d + SumRuns(from + 1, to)

AllRunsOk == \A k \in 1..Len(runs) : runs[k].ok

\* C9: measureRefresh called with iterations = n >= 1, all invocations
\* succeeding, has made exactly n+1 refresh invocations when it returns, and
\* returns the integer mean of the durations of invocations 2..n+1; for
\* n = 1 this is the duration of the second invocation.
C9_MeanWithoutWarmUp ==
    (mr.done /\ AllRunsOk /\ cfg.Iterations >= 1) =>
        /\ Len(runs) = cfg.Iterations + 1
        /\ mr.result =
             Quo(SumRuns(2, cfg.Iterations + 1), cfg.Iterations)
        /\ cfg.Iterations = 1 => mr.result = runs[2].d

\* measureRefresh returned after a warm-up run that took longer than the
\* only measured one
C9_Witness ==
    /\ mr.done
    /\ AllRunsOk
    /\ cfg.Iterations = 1
    /\ runs[1].d > runs[2].d

ReportedTypes == {Resources[p].Name : p \in 1..Len(Resources)}

C11_StateErrorAborts ==
    err = "could not read state" =>
        /\ pc = "done"
        /\ report = NoReport
        /\ planCalls = 0
        /\ refreshCalls = 0
        /\ attempted = {}

\* the isolation strategy could not read the state
C11_Witness ==
    /\ ~cfg.EventLog
    /\ cfg.Iterations >= 1
    /\ pc = "done"
    /\ err = "could not read state"

\* C12: when the tool-version lookup failed (the report's TerraformVersion
\* is nil), the run of either strategy with at least one iteration goes on
\* to a returned report: it does not crash.
C12_VersionFailureContinues ==
    (report.TerraformVersion.kind = "nil" /\ cfg.Iterations >= 1) =>
        pc # "panic"

\* C13: each per-type isolation run has a temporary directory of its own,
\* so the removal at the end of one type's run never takes away the
\* directory the run of another type needs: whenever the range loop has a
\* type left to visit, the directory resourceBenchmark changes into exists.
C13_OwnTempDir ==
    (pc = "td_range" /\ todo # {}) => tmpDir # "removed"

\* C14: within one benchmark run at most one external process is alive at
\* any time: every invocation (state pull, version, refresh, init, console,
\* plan) is started only after the previous one has exited.
C14_OneProcessAtATime ==
    /\ peak <= 1
    /\ inFlight <= 1
    /\ inFlight = 1 => pc = "el_scan"

\* the plan of the second iteration is running, the first one has exited
C14_Witness ==
    /\ planCalls = 2
    /\ inFlight = 1
    /\ Len(hist) = 1

\* -------------------------------------------- the minimal configuration
Out == rw.out

\* the blocks of the input the rewriter is to keep for version v
IsKept(b, v, prefix) ==
    /\ b.Type \in KeptTypes
    /\ ~ /\ b.Type = "provider"
         /\ ~VersionLess(RewriterVersion(v), tf15)
         /\ Len(b.Labels) > 0
         /\ b.Labels[1] # prefix

KeptIndexes == {p \in 1..Len(rw.blocks) :
                  IsKept(rw.blocks[p], rw.version, Prefix(rw.name))}

\* the p-th smallest element of a set of numbers
RECURSIVE Nth(_, _)
Nth(S, p) ==
    LET m == CHOOSE x \in S : \A y \in S : x <= y
    IN IF p = 1 THEN m ELSE Nth(S \ {m}, p - 1)

SubTypes(b) == {b.Subs[q].Type : q \in 1..Len(b.Subs)}

RequiredNames(b) ==
    UNION {DOMAIN b.Subs[q].Attrs :
             q \in {x \in 1..Len(b.Subs) :
                      b.Subs[x].Type = "required_providers"}}

\* C15 (as amended): the configuration returned for a target type keeps, in
\* order, the top-level blocks of kind variable, provider and terraform and
\* no other block; no backend block is left in a terraform block and its
\* required_providers keep only the entry named by the type's prefix; a
\* labelled provider block whose label differs from the prefix is dropped
\* when the tool version is at least 0.15, and kept as it is when the
\* version is older or cannot be parsed.
C15_MinimalConfigFrom015 ==
    rw.status = "ok" =>
        /\ Len(Out) = Cardinality(KeptIndexes)
        /\ \A p \in 1..Len(Out) :
             LET b == rw.blocks[Nth(KeptIndexes, p)]
             IN /\ Out[p].Type = b.Type
                /\ Out[p].Labels = b.Labels
                /\ Out[p].Type \in KeptTypes
                /\ "backend" \notin SubTypes(Out[p])
                /\ SubTypes(Out[p]) = SubTypes(b) \ {"backend"}
                /\ RequiredNames(Out[p]) =
                     RequiredNames(b) \cap {Prefix(rw.name)}
                /\ DOMAIN Out[p].Attrs = DOMAIN b.Attrs

\* C15 as claimed: no provider block with a label other than the type's
\* prefix is left in the configuration returned.
C15_OtherProvidersDropped ==
    rw.status = "ok" =>
        \A p \in 1..Len(Out) :
            (Out[p].Type = "provider" /\ Len(Out[p].Labels) > 0) =>
                Out[p].Labels[1] = Prefix(rw.name)

\* version 0.15.4, type aws_s3_bucket: the provider of azurerm was dropped
\* and a terraform block lost its backend and the entry of azurerm
C15_Witness ==
    /\ rw.status = "ok"
    /\ rw.version = V0154
    /\ Prefix(rw.name) = "aws"
    /\ Len(rw.blocks) = 2
    /\ rw.blocks[1].Type = "provider"
    /\ rw.blocks[1].Labels = <<"azurerm">>
    /\ "backend" \in SubTypes(rw.blocks[2])
    /\ Len(Out) = 1
    /\ RequiredNames(Out[1]) = {"aws"}

\* console outputs of an evaluation that failed after the unmask retry
FailedAfterRetry == {<<"(sensitive)", "">>, <<"(sensitive)", "(sensitive)">>}

\* C16: when the evaluation of a provider attribute still fails after the
\* unmask retry, the rewriter does not return a configuration (the per-type
\* measurement is aborted), and no configuration with an empty or masked
\* value in place of the attribute is produced.
C16_EvalFailureAborts ==
    (rw.evals \cap FailedAfterRetry # {}) =>
        /\ rw.status # "ok"
        /\ \A p \in 1..Len(Out) : \A n \in DOMAIN Out[p].Attrs :
             Out[p].Attrs[n] \notin {"", "(sensitive)"}

\* --------------------------------------------------------- the process
\* C17: when the run of the command has ended with an error (validation
\* failure, benchmark error, report file not written) the process exits
\* with a status that is not zero; when it ended without one, the report
\* has been printed and the same text written to the file.
C17_ErrorGivesNonZeroExit ==
    cmd.pc = "exited" =>
        /\ cmd.err # Nil => cmd.exit # 0
        /\ (cmd.err = Nil /\ cmd.exit = 0) => cmd.printed /\ cmd.written

\* ----------------------------------------------- what the entries count
\* the types the state records with mode data only
DataOnlyTypes(doc) ==
    {doc[p].Type : p \in {q \in 1..Len(doc) : doc[q].Mode = "data"}}
    \ {doc[p].Type : p \in {q \in 1..Len(doc) : doc[q].Mode = "managed"}}

\* C18: event-stream strategy, the records of mode data are left out: no
\* sample and no report entry is of a type the state records with mode
\* data only.
C18_DataRecordsExcluded ==
    cfg.EventLog =>
        \A t \in DataOnlyTypes(tfstate) :
            /\ t \notin DOMAIN reports
            /\ t \notin DOMAIN resourceOverallData
            /\ t \notin ReportedTypes

\* the number of samples of type t over the first k iterations
RECURSIVE SamplesUpTo(_, _)
SamplesUpTo(k, t) ==
    IF k = 0 THEN 0
    ELSE Cardinality(SamplesOf(k, t)) + SamplesUpTo(k - 1, t)

InstancesInState(doc, t) ==
    LET m == CountTypes(doc, FALSE) IN IF t \in DOMAIN m THEN m[t] ELSE 0

\* C20: in every returned report, of either strategy, the Count of an entry
\* is the number of instances of its type in the state of the workspace,
\* whatever the number of iterations and of addresses that completed.
\* (Stated for the entries of the types the state records.)
C20_CountIsInstancesInState ==
    Returned =>
        \A p \in 1..Len(Resources) :
            InstancesInState(tfstate, Resources[p].Name) > 0 =>
                Resources[p].Count =
                    InstancesInState(tfstate, Resources[p].Name)

\* ------------------------------------------------------ the whole run
\* the errors RefreshBenchmark returns when an external invocation failed
InvocationErrors ==
    {"could not read state", "starting terraform plan",
     "could not measure refresh for workspace"}

\* the positions of the event-stream strategy and of the isolation strategy
EventLogSteps == {"el_state", "el_newReport", "el_loop", "el_scan"}
TempDirSteps ==
    {"td_state", "td_newReport", "td_range", "rb_init", "mr_warm", "mr_loop"}

\* C21: with an iteration count of one or more, RefreshBenchmark runs one
\* strategy only, the event-stream strategy exactly when EventLog is set;
\* and when it has ended with the version of the tool known, at or above
\* 0.15.4 for the event-stream strategy, any version for the isolation
\* strategy, and no external invocation made it return an error, it has
\* returned a report and no error: it has not panicked and there is no
\* other error.
C21_OneStrategyNoError ==
    cfg.Iterations >= 1 =>
        /\ pc \in EventLogSteps => cfg.EventLog
        /\ pc \in TempDirSteps => ~cfg.EventLog
        /\ planCalls > 0 => cfg.EventLog
        /\ refreshCalls > 0 => ~cfg.EventLog
        /\ ( /\ pc \in {"done", "panic"}
             /\ report.TerraformVersion.kind = "ok"
             /\ cfg.EventLog => ~VersionLess(report.TerraformVersion, V0154)
             /\ err \notin InvocationErrors )
           => /\ pc = "done"
              /\ err = Nil
              /\ ReportedTypes =
                   IF cfg.EventLog THEN DOMAIN reports
                   ELSE attempted \ failed

\* the isolation strategy has returned a report with an entry on version
\* 0.12.31, having made refresh invocations and no plan invocation
C21_Witness ==
    /\ Returned
    /\ ~cfg.EventLog
    /\ report.TerraformVersion = V01231
    /\ Len(Resources) >= 1
    /\ refreshCalls > 0
    /\ planCalls = 0

\* --------------------------------------------- the stream and the wait
\* C22: in an iteration of the event-stream strategy the exit of the
\* process is awaited only when the stream has been read to its end, and
\* the statistics are computed only when the wait has returned and the
\* progress bar was finished.
C22_WaitAfterEndOfStream ==
    /\ stream.pc \in {"wait", "finish", "stats", "done"} =>
          /\ stream.eof
          /\ stream.todo = <<>>
          /\ stream.pipe = <<>>
    /\ stream.pc = "done" => stream.waited /\ stream.barFinished

\* ------------------------------------------------ the provider rewriting
\* the version handed to the rewriter is below 0.15 or cannot be parsed
BelowTf15 ==
    rw.version.kind = "unparsable"
    \/ (rw.version.kind = "ok" /\ VersionLess(rw.version, tf15))

\* the literals the evaluator returned in this call of the rewriter
Evaluated == {evaluate(outs) : outs \in rw.evals}

\* C23: the rewriting of provider blocks is gated by the version of the
\* tool. Below 0.15, or with a version that cannot be parsed, the evaluator
\* is never invoked and every provider block is in the output as it was
\* read. From 0.15 on, in the provider block labelled with the prefix of the
\* type every attribute whose expression references variables holds a
\* literal the evaluator returned, and every other attribute is unchanged.
C23_RewritingGatedByVersion ==
    /\ BelowTf15 => rw.evals = {}
    /\ rw.status = "ok" =>
         \A p \in 1..Len(Out) :
             LET b == rw.blocks[Nth(KeptIndexes, p)]
             IN b.Type = "provider" =>
                  IF BelowTf15 THEN Out[p] = b
                  ELSE /\ Len(b.Labels) > 0 => b.Labels[1] = Prefix(rw.name)
                       /\ \A n \in DOMAIN b.Attrs :
                            IF Len(b.Labels) > 0 /\ b.Attrs[n] = VarRef
                            THEN /\ Out[p].Attrs[n] \in Evaluated
                                 /\ Out[p].Attrs[n] # VarRef
                            ELSE Out[p].Attrs[n] = b.Attrs[n]

\* version 0.15.4, type aws_s3_bucket: the provider block of aws is in the
\* output with its token evaluated and its region as read; and version
\* 0.12.31 would have left it alone
C23_Witness ==
    /\ rw.status = "ok"
    /\ rw.version = V0154
    /\ Len(Out) = 1
    /\ Out[1].Type = "provider"
    /\ Out[1].Labels = <<"aws">>
    /\ Out[1].Attrs["token"] = "value"
    /\ Out[1].Attrs["region"] = Literal
    /\ rw.evals # {}

\* ------------------------------------------- the state of a single type
\* C24: the state document written for the isolation run of a type holds
\* exactly the resource records of the state pulled whose type is the
\* target type, in their order and with their instances as they were; the
\* records of other types are gone and the other fields are unchanged.
C24_StateFilteredToType ==
    sf.pc = "written" =>
        /\ sf.out.resources = SelectType(sf.state.resources, sf.target)
        /\ sf.out.serial = sf.state.serial

\* ------------------------------------------------ the working directory
\* C25: the working directory of the process is the same after
\* measureRefreshOnce, measureRefresh and resourceBenchmark have returned,
\* with a result or with an error, as it was when they were called: outside
\* a call of resourceBenchmark, and after the benchmark, it is the
\* directory of the workspace.
C25_WorkingDirRestored ==
    /\ cur = "" => cwd = "workspace"
    /\ pc \in {"td_range", "done", "panic"} => cwd = "workspace"

\* a report was returned after one type was measured in os.TempDir() and
\* another type failed there
C25_Witness ==
    /\ Returned
    /\ ~cfg.EventLog
    /\ failed # {}
    /\ ReportedTypes # {}
    /\ rewrite = "ok"
    /\ cwd = "workspace"

\* ------------------------------------------------- the mean and its bounds
\* the type t has a sample in every iteration
SampledAlways(t) == \A k \in 1..Len(hist) : SamplesOf(k, t) # {}

\* C26 (as amended): event-stream strategy, for every type of the final
\* report that has a sample in every iteration, Min <= TotalTime <= Max.
C26_MeanWithinMinMaxIfSampledAlways ==
    (cfg.EventLog /\ Returned) =>
        \A p \in 1..Len(Resources) :
            SampledAlways(Resources[p].Name) =>
                /\ Resources[p].Min <= Resources[p].TotalTime
                /\ Resources[p].TotalTime <= Resources[p].Max

\* C26 as claimed: event-stream strategy, for every type of the final
\* report Min <= TotalTime <= Max, a type whose addresses complete in some
\* of the iterations only included.
C26_MeanWithinMinMax ==
    (cfg.EventLog /\ Returned) =>
        \A p \in 1..Len(Resources) :
            /\ Resources[p].Min <= Resources[p].TotalTime
            /\ Resources[p].TotalTime <= Resources[p].Max

\* a report of two iterations that both sampled a type, with a duration
\* above zero
C26_Witness ==
    /\ cfg.EventLog
    /\ Returned
    /\ Len(hist) = 2
    /\ \E p \in 1..Len(Resources) :
         /\ SampledAlways(Resources[p].Name)
         /\ Resources[p].Min > 0

\* ------------------------------------------------- the iteration count
\* C27: whatever the configured iteration count, 0 included, the two
\* strategies end by returning a result or an error; a division by zero
\* never ends them. (The one other panic of the model is the nil version
\* in the rewriter.)
C27_NoDivisionByZero ==
    pc = "panic" => rewrite = "panic"

\* --------------------------------------------- pairing and iterations
\* C28: the pairing of the event-stream strategy is local to an iteration:
\* the maps of starts and ends are empty when an iteration begins, they
\* hold what this iteration read only, and an address yields a sample in an
\* iteration only if this iteration read both of its events; a start event
\* of one iteration and a complete event of another form no sample.
C28_PairingLocalToIteration ==
    /\ pc = "el_scan" =>
          /\ DOMAIN starts = {a \in Addrs : seen[a] \in {"S", "SC", "CS"}}
          /\ DOMAIN ends = {a \in Addrs : seen[a] \in {"C", "SC", "CS"}}
    /\ \A k \in 1..Len(hist) :
          /\ DOMAIN hist[k].starts =
               {a \in Addrs : hist[k].seen[a] \in {"S", "SC", "CS"}}
          /\ DOMAIN hist[k].ends =
               {a \in Addrs : hist[k].seen[a] \in {"C", "SC", "CS"}}
          /\ \A a \in hist[k].ids : hist[k].seen[a] \in {"SC", "CS"}

\* the first iteration read the start event of an address only, the second
\* its complete event only, and neither has a sample of it
C28_Witness ==
    /\ Len(hist) = 2
    /\ \E a \in Addrs :
         /\ hist[1].seen[a] = "S"
         /\ hist[2].seen[a] = "C"
         /\ a \notin hist[1].ids \cup hist[2].ids

\* -------------------------------------------------- the end of the stream
\* C29: every iteration of the event-stream strategy finishes, the process
\* exiting once it has written its output: the scanner loop reads the
\* stream to its end whatever lines the process writes, so that the
\* benchmark never waits for the exit of a process that is blocked writing
\* to the pipe.
C29_IterationFinishes == <>(stream.pc = "done")

\* the benchmark waits for a process that waits for the pipe to be read
Blocked ==
    /\ stream.pc = "wait"
    /\ stream.proc = "running"
    /\ stream.todo # <<>>
    /\ Len(stream.pipe) = PipeCap

\* C30: event-stream strategy, when the plan process of an iteration ended
\* in failure (the wait returned an error), the iteration gives no report
\* built from the events read: the benchmark returns an error.
C30_WaitErrorIsReturned ==
    (stream.pc = "done" /\ stream.waitErr # Nil) => stream.result = "error"

====
